---- MODULE Spec2Model ----
(***************************************************************************)
(* A model of `count` (src/src/main.rs): the coordinator (main) parses its *)
(* arguments, spawns one Worker per CPU, walks the targets pushing one     *)
(* Work::File per kept path, pushes one Work::Quit per worker, joins the   *)
(* workers, groups the FileCounts by language and prints a report.         *)
(*                                                                         *)
(* Strings are sequences of one-character strings, so that formatting,     *)
(* parsing and matching are computed and not assumed.  The crates the      *)
(* program calls (deque, regex, ignore, loc, clap, num_cpus,               *)
(* terminal_size) are modelled by their contracts on the small inputs      *)
(* enumerated below.                                                       *)
(***************************************************************************)
EXTENDS Integers, Sequences, FiniteSets, Bags, TLC

\* ------------------------------------------------------------------ bounds
\* num_cpus::get() returns a value in 1..MaxThreads.
MaxThreads == 2

\* --------------------------------------------------------- small utilities
Range(s) == {s[i] : i \in 1..Len(s)}

\* The permutations of a finite set, as sequences.
Perms(S) == {s \in [1..Cardinality(S) -> S] : \A x \in S : \E i \in DOMAIN s : s[i] = x}

RECURSIVE Flatten(_)
Flatten(ss) == IF ss = <<>> THEN <<>> ELSE Head(ss) \o Flatten(Tail(ss))

\* s is a contiguous part of t.
IsInfix(s, t) ==
    \E i \in 0..(Len(t) - Len(s)) : SubSeq(t, i + 1, i + Len(s)) = s

\* Option<T>
None == [some |-> FALSE]
Some(x) == [some |-> TRUE, val |-> x]

\* ------------------------------------------------- the files of the model
\* Paths the Walker can yield.
A_RS == <<"a", ".", "r", "s">>
MAIN_RS == <<"m", "a", "i", "n", ".", "r", "s">>
B_TXT == <<"b", ".", "t", "x", "t">>
X_GO == <<"x", ".", "g", "o">>
Y_PY == <<"y", ".", "p", "y">>
GONE_RS == <<"s", "r", "c", "/", "g", "o", "n", "e", ".", "r", "s">>
CAFE_RS == <<"s", "r", "c", "/", "c", "a", "f", "U+00E9", ".", "r", "s">>

Paths == {A_RS, MAIN_RS, B_TXT, X_GO, Y_PY, GONE_RS, CAFE_RS}

\* The files the Counter cannot read (no permission, vanished after the
\* walk, not decodable).
Unreadable == {GONE_RS}

\* What the Walker yields for each target (an unordered, finite set of
\* regular files): "." is the project directory, "e" an empty directory,
\* "q" a directory of scripts, "u" a directory with a file that cannot be
\* read and one with a two-byte character in its name.
WalkerYield(target) ==
    CASE target = "." -> {A_RS, MAIN_RS, B_TXT}
      [] target = "q" -> {X_GO, Y_PY}
      [] target = "u" -> {GONE_RS, CAFE_RS}
      [] OTHER -> {}

\* ------------------------------------------------------ loc: Lang, Count
Langs == {"Go", "Python", "Rust"}

\* Lang::to_s as bytes: "Go", "Python", "Rust".
to_s(lang) ==
    CASE lang = "Go" -> <<71, 111>>
      [] lang = "Python" -> <<80, 121, 116, 104, 111, 110>>
      [] lang = "Rust" -> <<82, 117, 115, 116>>
      [] OTHER -> <<85>>

\* str::cmp: lexicographic on bytes; a < b.
RECURSIVE StrLess(_, _)
StrLess(a, b) ==
    IF b = <<>> THEN FALSE
    ELSE IF a = <<>> THEN TRUE
    ELSE IF Head(a) /= Head(b) THEN Head(a) < Head(b)
    ELSE StrLess(Tail(a), Tail(b))

\* The characters after the last "." of the path (<<>> when there is none).
RECURSIVE Extension(_)
Extension(path) ==
    IF path = <<>> THEN <<>>
    ELSE IF \A i \in 1..Len(path) : path[i] /= "." THEN <<>>
    ELSE IF \A i \in 2..Len(path) : path[i] /= "." THEN Tail(path)
    ELSE Extension(Tail(path))

lang_from_ext(path) ==
    LET ext == Extension(path) IN
    CASE ext = <<"r", "s">> -> "Rust"
      [] ext = <<"g", "o">> -> "Go"
      [] ext = <<"p", "y">> -> "Python"
      [] OTHER -> "Unrecognized"

MkCount(code, comment, blank) ==
    [code |-> code, comment |-> comment, blank |-> blank,
     lines |-> code + comment + blank]

\* Count::default()
CountDefault == [code |-> 0, comment |-> 0, blank |-> 0, lines |-> 0]

\* loc::count on the files of the model.  Its result is used as a Count
\* (main.rs 53-57): there is no error case, so a file that cannot be read
\* has a Count too, the zero one.
count(path) ==
    CASE path \in Unreadable -> CountDefault
      [] path = A_RS -> MkCount(25, 1, 2)
      [] path = MAIN_RS -> MkCount(25, 3, 2)
      [] path = X_GO -> MkCount(100, 0, 0)
      [] path = Y_PY -> MkCount(200, 7, 5)
      [] OTHER -> MkCount(4, 0, 1)

\* Count::merge: pointwise addition into the receiver.
merge(total, other) ==
    [code |-> total.code + other.code,
     comment |-> total.comment + other.comment,
     blank |-> total.blank + other.blank,
     lines |-> total.lines + other.lines]

\* ------------------------------------------------------------ regex crate
\* Patterns are written with literal characters, "(" ")" for groups and "|"
\* for alternation.

\* The nesting depth after each prefix of the pattern.
RECURSIVE Depth(_, _)
Depth(re, n) ==
    IF n = 0 THEN 0
    ELSE Depth(re, n - 1)
         + (IF re[n] = "(" THEN 1 ELSE IF re[n] = ")" THEN -1 ELSE 0)

\* Regex::new(re) is Ok iff every ")" closes a group and every group is closed.
RegexValid(re) ==
    /\ \A n \in 1..Len(re) : Depth(re, n) >= 0
    /\ Depth(re, Len(re)) = 0

Concat(A, B) == {a \o b : a \in A, b \in B}

\* The strings a valid pattern matches exactly: alternation at the top level
\* binds weakest, then concatenation of literals and groups.
RECURSIVE RegexLang(_)
RegexLang(re) ==
    IF re = <<>> THEN {<<>>}
    ELSE IF \E i \in 1..Len(re) : re[i] = "|" /\ Depth(re, i) = 0
    THEN LET i == CHOOSE k \in 1..Len(re) : re[k] = "|" /\ Depth(re, k) = 0
         IN RegexLang(SubSeq(re, 1, i - 1)) \cup RegexLang(SubSeq(re, i + 1, Len(re)))
    ELSE IF Head(re) = "("
    THEN LET j == CHOOSE k \in 2..Len(re) :
                    /\ Depth(re, k) = 0
                    /\ \A m \in 1..(k - 1) : Depth(re, m) > 0
         IN Concat(RegexLang(SubSeq(re, 2, j - 1)), RegexLang(SubSeq(re, j + 1, Len(re))))
    ELSE Concat({<<Head(re)>>}, RegexLang(Tail(re)))

\* Regex::is_match: the pattern matches somewhere in the text.
is_match(re, text) == \E s \in RegexLang(re) : IsInfix(s, text)

\* regex_strs.map(|r| format!("({})", r)).collect::<Vec<String>>().join("|")
RECURSIVE JoinBar(_)
JoinBar(strs) ==
    IF strs = <<>> THEN <<>>
    ELSE IF Len(strs) = 1 THEN Head(strs)
    ELSE Head(strs) \o <<"|">> \o JoinBar(Tail(strs))

combined_regex(regex_strs) ==
    JoinBar([i \in 1..Len(regex_strs) |-> <<"(">> \o regex_strs[i] \o <<")">>])

\* Regex::new(&combined_regex): Ok(r) or Err(e).
RegexNew(re) == IF RegexValid(re) THEN [ok |-> TRUE, r |-> re] ELSE [ok |-> FALSE]

\* The patterns given on the command line in this model.
PAT_RS == <<"r", "s">>
PAT_MAIN == <<"m", "a", "i", "n">>
PAT_OPEN == <<"(", "r", "s">>
PAT_SPLIT == <<"r", ")", "(", "s">>

Patterns == {PAT_RS, PAT_MAIN, PAT_OPEN, PAT_SPLIT}

\* -------------------------------------------------------- width, columns
DigitChars == <<"0", "1", "2", "3", "4", "5", "6", "7", "8", "9">>

IsDigit(c) == \E d \in 1..10 : DigitChars[d] = c

DigitVal(c) == (CHOOSE d \in 1..10 : DigitChars[d] = c) - 1

RECURSIVE DecimalValue(_)
DecimalValue(ds) ==
    IF ds = <<>> THEN 0
    ELSE DecimalValue(SubSeq(ds, 1, Len(ds) - 1)) * 10 + DigitVal(ds[Len(ds)])

\* str::parse::<usize>: an optional "+", then one or more decimal digits.
ParseUsize(str) ==
    LET ds == IF str /= <<>> /\ Head(str) = "+" THEN Tail(str) ELSE str IN
    IF ds /= <<>> /\ \A i \in 1..Len(ds) : IsDigit(ds[i])
    THEN [ok |-> TRUE, v |-> DecimalValue(ds)]
    ELSE [ok |-> FALSE]

FULL == <<"f", "u", "l", "l">>

\* usize subtraction: [ok |-> FALSE] when the result would be negative.
SubUsize(a, b) == IF a >= b THEN [ok |-> TRUE, v |-> a - b] ELSE [ok |-> FALSE]

\* str::len(): the length in bytes of the UTF-8 encoding.  A character
\* outside ASCII is written by its code point ("U+00E9" takes two bytes).
Utf8Len(c) == IF c = "U+00E9" THEN 2 ELSE 1

RECURSIVE ByteLen(_)
ByteLen(s) == IF s = <<>> THEN 0 ELSE Utf8Len(Head(s)) + ByteLen(Tail(s))

\* Iterator::skip(k) over the chars of s.
SkipChars(s, k) == IF k >= Len(s) THEN <<>> ELSE SubSeq(s, k + 1, Len(s))

last_n_chars(s, n) ==
    IF ByteLen(s) <= n THEN s ELSE SkipChars(s, ByteLen(s) - n)

str_repeat(s, n) == [i \in 1..(n * Len(s)) |-> s[((i - 1) % Len(s)) + 1]]

\* ------------------------------------------------------ grouping, sorting
\* The entry match with a slip: an occupied entry is given a new vec![fc]
\* too.
EntryPushReplace(map, fc) ==
    [l \in DOMAIN map \cup {fc.lang} |->
       IF l = fc.lang THEN <<fc>> ELSE map[l]]

\* by_lang.entry(fc.lang): push onto an occupied entry, insert vec![fc] into
\* a vacant one.
EntryPush(map, fc) ==
    IF fc.lang \in DOMAIN map
    THEN [map EXCEPT ![fc.lang] = Append(@, fc)]
    ELSE [l \in DOMAIN map \cup {fc.lang} |->
            IF l = fc.lang THEN <<fc>> ELSE map[l]]

RECURSIVE GroupByLang(_, _)
GroupByLang(fcs, map) ==
    IF fcs = <<>> THEN map
    ELSE GroupByLang(Tail(fcs), EntryPush(map, Head(fcs)))

\* The fold with a slip: each file's count replaces the total.
RECURSIVE MergeAllLast(_, _)
MergeAllLast(fcs, total) ==
    IF fcs = <<>> THEN total
    ELSE MergeAllLast(Tail(fcs), Head(fcs).count)

\* total = Count::default(); for fc in filecounts { total.merge(&fc.count) }
RECURSIVE MergeAll(_, _)
MergeAll(fcs, total) ==
    IF fcs = <<>> THEN total
    ELSE MergeAll(Tail(fcs), merge(total, Head(fcs).count))

\* Ord::cmp: -1 (Less), 0 (Equal), 1 (Greater).
CmpInt(a, b) == IF a < b THEN -1 ELSE IF a > b THEN 1 ELSE 0

CmpStr(a, b) == IF StrLess(a, b) THEN -1 ELSE IF StrLess(b, a) THEN 1 ELSE 0

\* The comparators of the summary with a slip: the numeric columns compare
\* a with b, not b with a.
SummaryCompareAscending(sort, a, b) ==
    CASE sort = "language" -> CmpStr(to_s(a.lang), to_s(b.lang))
      [] sort = "files" -> CmpInt(a.total.files, b.total.files)
      [] sort = "code" -> CmpInt(a.total.count.code, b.total.count.code)
      [] sort = "comment" -> CmpInt(a.total.count.comment, b.total.count.comment)
      [] sort = "blank" -> CmpInt(a.total.count.blank, b.total.count.blank)
      [] sort = "lines" -> CmpInt(a.total.count.lines, b.total.count.lines)
      [] OTHER -> CmpInt(a.total.count.code, b.total.count.code)

\* The comparators of the summary: a and b are (lang, LangTotal) entries.
SummaryCompare(sort, a, b) ==
    CASE sort = "language" -> CmpStr(to_s(a.lang), to_s(b.lang))
      [] sort = "files" -> CmpInt(b.total.files, a.total.files)
      [] sort = "code" -> CmpInt(b.total.count.code, a.total.count.code)
      [] sort = "comment" -> CmpInt(b.total.count.comment, a.total.count.comment)
      [] sort = "blank" -> CmpInt(b.total.count.blank, a.total.count.blank)
      [] sort = "lines" -> CmpInt(b.total.count.lines, a.total.count.lines)
      [] OTHER -> CmpInt(b.total.count.code, a.total.count.code)

\* The comparators of the per-file breakdown: a and b are FileCounts.
FileCompare(sort, a, b) ==
    CASE sort = "code" -> CmpInt(b.count.code, a.count.code)
      [] sort = "comment" -> CmpInt(b.count.comment, a.count.comment)
      [] sort = "blank" -> CmpInt(b.count.blank, a.count.blank)
      [] sort = "lines" -> CmpInt(b.count.lines, a.count.lines)
      [] OTHER -> 0

Compare(cmp, a, b) ==
    IF cmp.of = "summary" THEN SummaryCompare(cmp.sort, a, b)
    ELSE FileCompare(cmp.sort, a, b)

\* slice::sort_by is a stable sort: x goes before the first element that
\* compares Greater than it, after everything else.
InsertSorted(sorted, x, cmp) ==
    LET after == {i \in 1..Len(sorted) : Compare(cmp, sorted[i], x) = 1}
        at == IF after = {} THEN Len(sorted) + 1
              ELSE CHOOSE i \in after : \A j \in after : i <= j
    IN SubSeq(sorted, 1, at - 1) \o <<x>> \o SubSeq(sorted, at, Len(sorted))

RECURSIVE SortInto(_, _, _)
SortInto(sorted, rest, cmp) ==
    IF rest = <<>> THEN sorted
    ELSE SortInto(InsertSorted(sorted, Head(rest), cmp), Tail(rest), cmp)

sort_by(s, cmp) == SortInto(<<>>, s, cmp)

\* ------------------------------------------------------------- the report
ValidSorts == {"language", "files", "code", "comment", "blank", "lines"}

\* The width left to the first column, and to the path column of a file row.
FirstColumnReserve == 63
PathColumnReserve == 55
DefaultWidth == 80

NumericRow(files, c) ==
    [files |-> files, lines |-> c.lines, blank |-> c.blank,
     comment |-> c.comment, code |-> c.code]

\* main, summary branch: one LangTotal per bucket.
LangTotals(bl) ==
    [l \in DOMAIN bl |-> [files |-> Len(bl[l]), count |-> MergeAll(bl[l], CountDefault)]]

\* lang_totals.iter().collect() in the HashMap's iteration order `order`,
\* then sorted by the chosen column.
TotalsByLang(bl, sort, order) ==
    LET lt == LangTotals(bl)
        entries == [i \in 1..Len(order) |-> [lang |-> order[i], total |-> lt[order[i]]]]
    IN sort_by(entries, [of |-> "summary", sort |-> sort])

\* The totals with a slip: the comment column is not accumulated.
RECURSIVE SumTotalsNoComment(_, _)
SumTotalsNoComment(entries, totals) ==
    IF entries = <<>> THEN totals
    ELSE LET total == Head(entries).total IN
         SumTotalsNoComment(Tail(entries),
                   [files |-> totals.files + total.files,
                    count |-> [code |-> totals.count.code + total.count.code,
                               blank |-> totals.count.blank + total.count.blank,
                               comment |-> totals.count.comment,
                               lines |-> totals.count.lines + total.count.lines]])

\* print_totals_by_lang: the totals accumulated over the printed rows.
RECURSIVE SumTotals(_, _)
SumTotals(entries, totals) ==
    IF entries = <<>> THEN totals
    ELSE LET total == Head(entries).total IN
         SumTotals(Tail(entries),
                   [files |-> totals.files + total.files,
                    count |-> [code |-> totals.count.code + total.count.code,
                               blank |-> totals.count.blank + total.count.blank,
                               comment |-> totals.count.comment + total.count.comment,
                               lines |-> totals.count.lines + total.count.lines]])

\* What summary mode prints.
SummaryReport(bl, sort, w, order) ==
    LET entries == TotalsByLang(bl, sort, order)
        totals == SumTotals(entries, [files |-> 0, count |-> CountDefault])
    IN [mode |-> "summary",
        warning |-> IF sort \in ValidSorts THEN <<>> ELSE <<"invalid sort option">>,
        linesep |-> str_repeat(<<"-">>, w),
        first_col |-> w - FirstColumnReserve,
        rows |-> [i \in 1..Len(entries) |->
                    [name |-> entries[i].lang,
                     num |-> NumericRow(entries[i].total.files, entries[i].total.count)]],
        total |-> NumericRow(totals.files, totals.count)]

\* The sort of one bucket's files in per-file mode.
SortFiles(fcs, sort) ==
    IF sort \in {"code", "comment", "blank", "lines"}
    THEN sort_by(fcs, [of |-> "files", sort |-> sort])
    ELSE fcs

\* What per-file mode prints for one bucket: its header and its file rows.
FileGroup(lang, fcs, sort, w) ==
    LET sorted == SortFiles(fcs, sort) IN
    [name |-> lang,
     num |-> NumericRow(Len(fcs), MergeAll(fcs, CountDefault)),
     rows |-> [i \in 1..Len(sorted) |->
                 [path |-> last_n_chars(sorted[i].path, w - PathColumnReserve),
                  lines |-> sorted[i].count.lines,
                  blank |-> sorted[i].count.blank,
                  comment |-> sorted[i].count.comment,
                  code |-> sorted[i].count.code]]]

\* What per-file mode prints, the buckets visited in the order `order`.
FilesReport(bl, sort, w, order) ==
    [mode |-> "files",
     warning |-> <<>>,
     linesep |-> str_repeat(<<"-">>, w),
     first_col |-> w - FirstColumnReserve,
     groups |-> [i \in 1..Len(order) |-> FileGroup(order[i], bl[order[i]], sort, w)]]

NoReport == [mode |-> "none"]

\* --------------------------------------------------- the command line
\* The values --sort is given in this model.
SortArgs == ValidSorts \cup {"bogus"}

\* The values --width is given in this model.
WidthArgs == {FULL, <<"4", "0">>, <<"6", "0">>, <<"1", "0", "0">>, <<"a", "b", "c">>}

\* What terminal_size() returns when it returns a size.
TerminalWidth == 120

\* The TARGET lists given in this model.
TargetLists ==
    {<<>>, <<"e">>, <<"q">>, <<".">>, <<"u">>, <<"e", "q">>, <<"q", "q">>, <<".", "q">>}

\* The --include and --exclude lists given in this model.
PatternLists ==
    {<<>>} \cup {<<p>> : p \in Patterns}
    \cup {<<PAT_RS, PAT_MAIN>>, <<PAT_OPEN, PAT_RS>>}

DefaultArgs ==
    [target |-> <<>>, sort |-> None, files |-> FALSE, exclude |-> <<>>,
     include |-> <<>>, width |-> None]

DefaultEnv == [cpus |-> 1, terminal |-> None]

\* The runs of the model: around the plain invocation `count`, one group of
\* runs per family of options, each with the other options left out.
TargetRuns ==
    {[args |-> [DefaultArgs EXCEPT !.target = t, !.files = f],
      env |-> [DefaultEnv EXCEPT !.cpus = n]] :
        t \in TargetLists, f \in BOOLEAN, n \in 1..MaxThreads}

SortRuns ==
    {[args |-> [DefaultArgs EXCEPT !.target = <<".", "q">>, !.sort = Some(x), !.files = f],
      env |-> DefaultEnv] :
        x \in SortArgs, f \in BOOLEAN}

FilterRuns ==
    {[args |-> [DefaultArgs EXCEPT !.include = i, !.exclude = x],
      env |-> DefaultEnv] :
        i \in PatternLists, x \in PatternLists}

WidthRuns ==
    {[args |-> [DefaultArgs EXCEPT !.width = Some(w), !.files = f],
      env |-> [DefaultEnv EXCEPT !.terminal = t]] :
        w \in WidthArgs, f \in BOOLEAN, t \in {None, Some(TerminalWidth)}}

\* Per-file reports narrow enough for a path to be cut.
TruncRuns ==
    {[args |-> [DefaultArgs EXCEPT !.target = t, !.files = TRUE,
                                   !.width = Some(<<"6", "4">>)],
      env |-> DefaultEnv] :
        t \in {<<"u">>, <<".", "u">>}}

Runs == TargetRuns \cup SortRuns \cup FilterRuns \cup WidthRuns \cup TruncRuns

\* ------------------------------------------------------------- the state
VARIABLES
    args,           \* clap's matches: the command line
    env,            \* the machine: its CPUs and its terminal
    pc,             \* where main is
    exit_code,      \* the process's exit code once it has ended
    stdout,         \* the messages printed before the report
    stderr,         \* the panic messages
    exclude_regex,  \* Option<Regex>
    include_regex,  \* Option<Regex>
    width,          \* usize
    workers,        \* the spawned threads: "running", "returned" or "joined"
    v,              \* each worker's private Vec<FileCount>
    workq,          \* the deque, oldest item first
    target_i,       \* the index of the target being walked
    files,          \* the paths the current walker has yet to yield
    quits,          \* the Quits pushed so far
    filecounts,     \* main's Vec<FileCount>
    by_lang,        \* HashMap<Lang, Vec<FileCount>>
    report,         \* the report printed
    pushed,         \* history: every Work item pushed, in order
    steals          \* history: for each pushed item, the workers that stole it

vars == <<args, env, pc, exit_code, stdout, stderr, exclude_regex, include_regex, width,
          workers, v, workq, target_i, files, quits, filecounts, by_lang,
          report, pushed, steals>>

cmdline == <<args, env>>
io == <<stdout, stderr>>
parsed == <<exclude_regex, include_regex, width>>
pool == <<workers, v>>
walk == <<target_i, files>>
queue == <<workq, pushed, steals>>
results == <<filecounts, by_lang, report>>

\* matches.values_of("target"), "." when none is given.
targets == IF args.target = <<>> THEN <<".">> ELSE args.target

\* matches.value_of("sort").unwrap_or("code")
sort == IF args.sort.some THEN args.sort.val ELSE "code"

\* matches.is_present("files")
by_file == args.files

Init ==
    /\ \E run \in Runs :
          /\ args = run.args
          /\ env = run.env
    /\ pc = "exclude"
    /\ exit_code = None
    /\ stdout = <<>>
    /\ stderr = <<>>
    /\ exclude_regex = None
    /\ include_regex = None
    /\ width = DefaultWidth
    /\ workers = <<>>
    /\ v = <<>>
    /\ workq = <<>>
    /\ target_i = 1
    /\ files = None
    /\ quits = 0
    /\ filecounts = <<>>
    /\ by_lang = <<>>
    /\ report = NoReport
    /\ pushed = <<>>
    /\ steals = <<>>

\* ------------------------------------------------------ main: arguments
\* exclude_regex: None without --exclude, else the compiled combination.
CompileExclude ==
    /\ pc = "exclude"
    /\ \/ /\ args.exclude = <<>>
          /\ exclude_regex' = None
       \/ /\ args.exclude /= <<>>
          /\ RegexNew(combined_regex(args.exclude)).ok
          /\ exclude_regex' = Some(RegexNew(combined_regex(args.exclude)).r)
    /\ pc' = "include"
    /\ UNCHANGED <<cmdline, exit_code, io, include_regex, width, pool, walk,
                   quits, queue, results>>

\* Err(e): println!("Error processing exclude regex: {}", e); exit(1)
ExcludeError ==
    /\ pc = "exclude"
    /\ args.exclude /= <<>>
    /\ ~RegexNew(combined_regex(args.exclude)).ok
    /\ stdout' = Append(stdout, "Error processing exclude regex")
    /\ stderr' = stderr
    /\ pc' = "exited"
    /\ exit_code' = Some(1)
    /\ UNCHANGED <<cmdline, parsed, pool, walk, quits, queue, results>>

CompileInclude ==
    /\ pc = "include"
    /\ \/ /\ args.include = <<>>
          /\ include_regex' = None
       \/ /\ args.include /= <<>>
          /\ RegexNew(combined_regex(args.include)).ok
          /\ include_regex' = Some(RegexNew(combined_regex(args.include)).r)
    /\ pc' = "width"
    /\ UNCHANGED <<cmdline, exit_code, io, exclude_regex, width, pool, walk,
                   quits, queue, results>>

\* Err(e): println!("Error processing include regex: {}", e); exit(1)
IncludeError ==
    /\ pc = "include"
    /\ args.include /= <<>>
    /\ ~RegexNew(combined_regex(args.include)).ok
    /\ stdout' = Append(stdout, "Error processing include regex")
    /\ stderr' = stderr
    /\ pc' = "exited"
    /\ exit_code' = Some(1)
    /\ UNCHANGED <<cmdline, parsed, pool, walk, quits, queue, results>>

\* width: 80, the terminal's width for "full" when there is one, else the
\* number given.
ParseWidth ==
    /\ pc = "width"
    /\ \/ /\ ~args.width.some
          /\ width' = width
       \/ /\ args.width.some
          /\ args.width.val = FULL
          /\ width' = IF env.terminal.some THEN env.terminal.val ELSE width
       \/ /\ args.width.some
          /\ args.width.val /= FULL
          /\ ParseUsize(args.width.val).ok
          /\ width' = ParseUsize(args.width.val).v
    /\ pc' = "spawn"
    /\ UNCHANGED <<cmdline, exit_code, io, exclude_regex, include_regex, pool,
                   walk, quits, queue, results>>

\* val.unwrap_or("80").parse::<usize>().unwrap() on a value that is no number:
\* the main thread panics.
WidthPanic ==
    /\ pc = "width"
    /\ args.width.some
    /\ args.width.val /= FULL
    /\ ~ParseUsize(args.width.val).ok
    /\ pc' = "panicked"
    /\ exit_code' = Some(101)
    /\ stderr' = Append(stderr, "called Result::unwrap() on an Err value")
    /\ stdout' = stdout
    /\ UNCHANGED <<cmdline, parsed, pool, walk, quits, queue, results>>

\* ------------------------------------------------------------ the deque
\* Work::File(path) and Work::Quit; id is the item's place in `pushed` and
\* exists only in the model.
WorkFile(path, id) == [kind |-> "File", path |-> path, id |-> id]
WorkQuit(id) == [kind |-> "Quit", id |-> id]

\* The push with a slip: the item is added at the end the steals take from.
PushFront(q, item) == <<item>> \o q

\* workq.push(item): the item is added at the bottom.
Push(q, item) == Append(q, item)

\* What a successful steal leaves in the deque: the oldest item is taken.
StealRest(q) == Tail(q)

\* ------------------------------------------------------ main: the pool
\* for _ in 0..threads { workers.push(thread::spawn(|| worker.run())) };
\* after the last spawn main goes on to the walk.
SpawnWorker ==
    /\ pc = "spawn"
    /\ Len(workers) < env.cpus
    /\ workers' = Append(workers, "running")
    /\ v' = Append(v, <<>>)
    /\ pc' = IF Len(workers) + 1 = env.cpus THEN "walk" ELSE "spawn"
    /\ UNCHANGED <<cmdline, exit_code, io, parsed, walk, quits, queue, results>>

\* ------------------------------------------------------ main: the walk
\* The filters with a slip: a path the include pattern matches is kept
\* without asking the exclude pattern.
KeepIncludeWins(path) ==
    IF include_regex.some
    THEN is_match(include_regex.val, path)
    ELSE IF exclude_regex.some THEN ~is_match(exclude_regex.val, path) ELSE TRUE

\* The two filters of the walk: the include pattern, then the exclude one.
Keep(path) ==
    /\ IF include_regex.some THEN is_match(include_regex.val, path) ELSE TRUE
    /\ IF exclude_regex.some THEN ~is_match(exclude_regex.val, path) ELSE TRUE

\* The walker of the current target is exhausted: the next target, or the
\* end of the walk.
TargetDone ==
    /\ files' = None
    /\ target_i' = target_i + 1
    /\ pc' = IF target_i = Len(targets) THEN "quit" ELSE "walk"

\* The walker yields `path`, one of the files it has yet to yield.
Yielded(path) ==
    /\ pc = "walk"
    /\ files.some
    /\ path \in files.val
    /\ IF files.val = {path}
       THEN TargetDone
       ELSE /\ files' = Some(files.val \ {path})
            /\ UNCHANGED <<target_i, pc>>

\* WalkBuilder::new(target)...build() for the next target.
OpenTarget ==
    /\ pc = "walk"
    /\ ~files.some
    /\ IF WalkerYield(targets[target_i]) = {}
       THEN TargetDone
       ELSE /\ files' = Some(WalkerYield(targets[target_i]))
            /\ UNCHANGED <<target_i, pc>>
    /\ UNCHANGED <<cmdline, exit_code, io, parsed, pool, quits, queue, results>>

\* The push loop with a slip: a path pushed before is not pushed again.
PushFileOnce(path) ==
    /\ Yielded(path)
    /\ Keep(path)
    /\ IF \E i \in 1..Len(pushed) : pushed[i].kind = "File" /\ pushed[i].path = path
       THEN UNCHANGED queue
       ELSE /\ workq' = Push(workq, WorkFile(path, Len(pushed) + 1))
            /\ pushed' = Append(pushed, WorkFile(path, Len(pushed) + 1))
            /\ steals' = Append(steals, <<>>)
    /\ UNCHANGED <<cmdline, exit_code, io, parsed, pool, quits, results>>

\* for path in files { workq.push(Work::File(path)) }: the walker yields a
\* path that passes both filters.
PushFile(path) ==
    /\ Yielded(path)
    /\ Keep(path)
    /\ workq' = Push(workq, WorkFile(path, Len(pushed) + 1))
    /\ pushed' = Append(pushed, WorkFile(path, Len(pushed) + 1))
    /\ steals' = Append(steals, <<>>)
    /\ UNCHANGED <<cmdline, exit_code, io, parsed, pool, quits, results>>

\* The walker yields a path that a filter drops.
SkipFile(path) ==
    /\ Yielded(path)
    /\ ~Keep(path)
    /\ UNCHANGED <<cmdline, exit_code, io, parsed, pool, quits, queue, results>>

\* The Quit loop with a slip: one Quit too few.
QuitCountShort == Len(workers) - 1

\* The Quit loop with a slip: one Quit too many.
QuitCountExtra == Len(workers) + 1

\* for _ in 0..workers.len() { workq.push(Work::Quit) }; after the last
\* push main goes on to join the threads.
QuitCount == Len(workers)

PushQuit ==
    /\ pc = "quit"
    /\ quits < QuitCount
    /\ quits' = quits + 1
    /\ workq' = Push(workq, WorkQuit(Len(pushed) + 1))
    /\ pushed' = Append(pushed, WorkQuit(Len(pushed) + 1))
    /\ steals' = Append(steals, <<>>)
    /\ pc' = IF quits + 1 = QuitCount THEN "join" ELSE "quit"
    /\ UNCHANGED <<cmdline, exit_code, io, parsed, pool, walk, results>>

\* ----------------------------------------------------------- Worker::run
ProcessAlive == ~exit_code.some

Running(w) ==
    /\ ProcessAlive
    /\ w \in 1..Len(workers)
    /\ workers[w] = "running"

\* The Empty arm with a slip: break instead of continue.
StealEmptyBreak(w) ==
    /\ ProcessAlive
    /\ w \in 1..Len(workers)
    /\ workers[w] = "running"
    /\ workq = <<>>
    /\ workers' = [workers EXCEPT ![w] = "returned"]
    /\ UNCHANGED <<cmdline, pc, exit_code, io, parsed, v, walk, quits, queue, results>>

\* Stolen::Empty => continue
StealEmpty(w) ==
    /\ Running(w)
    /\ workq = <<>>
    /\ UNCHANGED vars

\* Stolen::Abort => continue: the steal lost a race for the oldest item.
StealAbort(w) ==
    /\ Running(w)
    /\ workq /= <<>>
    /\ UNCHANGED vars

\* Stolen::Data(Work::Quit) => break; the thread returns v.
StealQuit(w) ==
    /\ Running(w)
    /\ workq /= <<>>
    /\ Head(workq).kind = "Quit"
    /\ workq' = StealRest(workq)
    /\ steals' = [steals EXCEPT ![Head(workq).id] = Append(@, w)]
    /\ workers' = [workers EXCEPT ![w] = "returned"]
    /\ UNCHANGED <<cmdline, pc, exit_code, io, parsed, v, walk, quits, pushed, results>>

\* The File arm with a slip: the language is not looked at.
CountFileAny(vec, path) ==
    Append(vec, [lang |-> lang_from_ext(path), path |-> path, count |-> count(path)])

\* The File arm: a FileCount is pushed onto v when the language is recognized.
CountFile(vec, path) ==
    LET lang == lang_from_ext(path) IN
    IF lang /= "Unrecognized"
    THEN Append(vec, [lang |-> lang, path |-> path, count |-> count(path)])
    ELSE vec

\* Stolen::Data(Work::File(path)) => ...
StealFile(w) ==
    /\ Running(w)
    /\ workq /= <<>>
    /\ Head(workq).kind = "File"
    /\ workq' = StealRest(workq)
    /\ steals' = [steals EXCEPT ![Head(workq).id] = Append(@, w)]
    /\ v' = [v EXCEPT ![w] = CountFile(@, Head(workq).path)]
    /\ UNCHANGED <<cmdline, pc, exit_code, io, parsed, workers, walk, quits, pushed, results>>

\* ------------------------------------------- main: join, group, report
\* The next thread main joins: the first one not joined yet.
NextJoin == CHOOSE w \in 1..Len(workers) :
                /\ workers[w] /= "joined"
                /\ \A u \in 1..(w - 1) : workers[u] = "joined"

\* Join with a slip: the joined list replaces filecounts instead of extending it.
JoinOverwrite ==
    /\ pc = "join"
    /\ \E w \in 1..Len(workers) : workers[w] /= "joined"
    /\ workers[NextJoin] = "returned"
    /\ filecounts' = v[NextJoin]
    /\ workers' = [workers EXCEPT ![NextJoin] = "joined"]
    /\ UNCHANGED <<cmdline, pc, exit_code, io, parsed, v, walk, quits, queue,
                   by_lang, report>>

\* filecounts.extend(worker.join().unwrap().iter().cloned())
Join ==
    /\ pc = "join"
    /\ \E w \in 1..Len(workers) : workers[w] /= "joined"
    /\ workers[NextJoin] = "returned"
    /\ filecounts' = filecounts \o v[NextJoin]
    /\ workers' = [workers EXCEPT ![NextJoin] = "joined"]
    /\ UNCHANGED <<cmdline, pc, exit_code, io, parsed, v, walk, quits, queue,
                   by_lang, report>>

\* for fc in filecounts { match by_lang.entry(fc.lang) ... }
Aggregate ==
    /\ pc = "join"
    /\ \A w \in 1..Len(workers) : workers[w] = "joined"
    /\ by_lang' = GroupByLang(filecounts, <<>>)
    /\ pc' = "report"
    /\ UNCHANGED <<cmdline, exit_code, io, parsed, pool, walk, quits, queue,
                   filecounts, report>>

\* The summary by language; the HashMap is iterated in some order.
ReportSummary ==
    /\ pc = "report"
    /\ ~by_file
    /\ SubUsize(width, FirstColumnReserve).ok
    /\ \E order \in Perms(DOMAIN by_lang) :
          report' = SummaryReport(by_lang, sort, width, order)
    /\ pc' = "done"
    /\ exit_code' = Some(0)
    /\ UNCHANGED <<cmdline, io, parsed, pool, walk, quits, queue, filecounts, by_lang>>

\* The breakdown by file; the HashMap is iterated in some order.
ReportFiles ==
    /\ pc = "report"
    /\ by_file
    /\ SubUsize(width, FirstColumnReserve).ok
    /\ \E order \in Perms(DOMAIN by_lang) :
          report' = FilesReport(by_lang, sort, width, order)
    /\ pc' = "done"
    /\ exit_code' = Some(0)
    /\ UNCHANGED <<cmdline, io, parsed, pool, walk, quits, queue, filecounts, by_lang>>

\* width - 63 in the header of either report when width < 63: the
\* subtraction panics where overflow is checked; where it is not it wraps,
\* and the first column is then padded to about 2^64 characters, which does
\* not end.
ReportOverflow ==
    /\ pc = "report"
    /\ ~SubUsize(width, FirstColumnReserve).ok
    /\ \/ /\ pc' = "panicked"
          /\ exit_code' = Some(101)
          /\ stderr' = Append(stderr, "attempt to subtract with overflow")
       \/ /\ pc' = "padding"
          /\ exit_code' = exit_code
          /\ stderr' = stderr
    /\ stdout' = stdout
    /\ UNCHANGED <<cmdline, parsed, pool, walk, quits, queue, results>>

\* ------------------------------------------------------ specifications
Main ==
    \/ CompileExclude \/ ExcludeError \/ CompileInclude \/ IncludeError
    \/ ParseWidth \/ WidthPanic
    \/ SpawnWorker
    \/ OpenTarget \/ (\E path \in Paths : PushFile(path) \/ SkipFile(path))
    \/ PushQuit
    \/ Join \/ Aggregate
    \/ ReportSummary \/ ReportFiles \/ ReportOverflow

Work(w) == StealEmpty(w) \/ StealAbort(w) \/ StealQuit(w) \/ StealFile(w)

Next == Main \/ \E w \in 1..MaxThreads : Work(w)

Spec == Init /\ [][Next]_vars

\* The steps between the first spawn and the last join that change the
\* state: main's spawns, pushes and joins, and the workers' successful steals.
Pipeline ==
    \/ SpawnWorker
    \/ OpenTarget \/ (\E path \in Paths : PushFile(path) \/ SkipFile(path))
    \/ PushQuit
    \/ Join
    \/ \E w \in 1..MaxThreads : StealQuit(w) \/ StealFile(w)

\* While some thread of the pipeline can take a step that changes the state,
\* one is taken: the scheduler runs the threads, and a steal comes back
\* Empty or Abort (a step that changes nothing) only while the deque is
\* empty or another thread's operation on it succeeds.
FairSpec == Spec /\ WF_vars(Pipeline)

\* ================================================================ claims
\* The places of `pushed` that hold Work::File(path).
FilePushes(path) ==
    {i \in 1..Len(pushed) : pushed[i].kind = "File" /\ pushed[i].path = path}

\* The places of the deque that hold the item pushed as number id.
InQueue(id) == {k \in 1..Len(workq) : workq[k].id = id}

\* The FileCounts of a list that are for `path`.
CountsFor(fcs, path) == {k \in 1..Len(fcs) : fcs[k].path = path}

Recognized(path) == lang_from_ext(path) /= "Unrecognized"

\* main has spawned and joined every worker.
AllJoined ==
    /\ Len(workers) = env.cpus
    /\ \A w \in 1..Len(workers) : workers[w] = "joined"

\* C1: every pushed Work::File is, at every moment, either still in the
\* deque once or stolen once by one worker; once main has joined all
\* workers every File item has been stolen, and filecounts holds exactly one
\* FileCount (the file's language and count) per pushed File item of a
\* recognized language and nothing else.
C1_ExactlyOnce ==
    /\ \A id \in 1..Len(pushed) :
          pushed[id].kind = "File" =>
             Cardinality(InQueue(id)) + Len(steals[id]) = 1
    /\ AllJoined =>
          /\ \A id \in 1..Len(pushed) : Len(steals[id]) = 1
          /\ \A path \in Paths :
                Cardinality(CountsFor(filecounts, path))
                   = IF Recognized(path) THEN Cardinality(FilePushes(path)) ELSE 0
          /\ \A k \in 1..Len(filecounts) :
                filecounts[k] = [lang |-> lang_from_ext(filecounts[k].path),
                                 path |-> filecounts[k].path,
                                 count |-> count(filecounts[k].path)]

\* Two workers have each counted files, one path was pushed twice, and main
\* has joined both.
C1_Witness ==
    /\ AllJoined
    /\ env.cpus = 2
    /\ v[1] /= <<>>
    /\ v[2] /= <<>>
    /\ \E path \in Paths : Cardinality(FilePushes(path)) = 2

\* No Work::File has been pushed.
NoFilePushed == \A i \in 1..Len(pushed) : pushed[i].kind /= "File"

WalkedTimes(path) ==
    Cardinality({i \in 1..Len(targets) : path \in WalkerYield(targets[i])})

\* The filter as the command line states it: the path matches the
\* combination of the --include patterns, if any, and does not match the
\* combination of the --exclude patterns, if any.
KeepArgs(path) ==
    /\ IF args.include = <<>> THEN TRUE
       ELSE is_match(combined_regex(args.include), path)
    /\ IF args.exclude = <<>> THEN TRUE
       ELSE ~is_match(combined_regex(args.exclude), path)

\* One column of one file: 1 for "files", else the column of its Count.
Column(path, col) == IF col = "files" THEN 1 ELSE count(path)[col]

\* The sum of a column over the walked, kept files of S, each counted once
\* per target that yields it.
RECURSIVE ColumnSum(_, _)
ColumnSum(S, col) ==
    IF S = {} THEN 0
    ELSE LET path == CHOOSE x \in S : TRUE
         IN WalkedTimes(path) * Column(path, col) + ColumnSum(S \ {path}, col)

KeptOf(lang) == {path \in Paths : lang_from_ext(path) = lang /\ KeepArgs(path)}

ExpectedRow(S) ==
    [files |-> ColumnSum(S, "files"), lines |-> ColumnSum(S, "lines"),
     blank |-> ColumnSum(S, "blank"), comment |-> ColumnSum(S, "comment"),
     code |-> ColumnSum(S, "code")]

ExpectedLangs == {lang \in Langs : ColumnSum(KeptOf(lang), "files") > 0}

\* The language rows of the printed report, whatever its mode.
LangRows ==
    IF report.mode = "summary"
    THEN {[name |-> report.rows[i].name, num |-> report.rows[i].num] :
             i \in 1..Len(report.rows)}
    ELSE {[name |-> report.groups[i].name, num |-> report.groups[i].num] :
             i \in 1..Len(report.groups)}

NumberOfLangRows ==
    IF report.mode = "summary" THEN Len(report.rows) ELSE Len(report.groups)

\* The column-wise sum of a sequence of numeric rows.
RECURSIVE SumRows(_)
SumRows(nums) ==
    IF nums = <<>> THEN [files |-> 0, lines |-> 0, blank |-> 0, comment |-> 0, code |-> 0]
    ELSE LET rest == SumRows(Tail(nums))
             n == Head(nums)
         IN [files |-> n.files + rest.files, lines |-> n.lines + rest.lines,
             blank |-> n.blank + rest.blank, comment |-> n.comment + rest.comment,
             code |-> n.code + rest.code]

\* The rows of a list of FileCounts, each one file.
OneFileRows(fcs) == [k \in 1..Len(fcs) |-> NumericRow(1, fcs[k].count)]

\* C3: for every number of workers, every interleaving of the steals and
\* every order in which the FileCounts reach filecounts and are merged, the
\* buckets main has grouped are those of the languages of the walked, kept
\* files, with the sums these files determine, and the printed report has
\* one numeric row per bucket with these sums and, in the summary, their
\* Totals row.
C3_RowsDetermined ==
    /\ pc = "report" =>
          /\ DOMAIN by_lang = ExpectedLangs
          /\ \A lang \in ExpectedLangs :
                SumRows(OneFileRows(by_lang[lang])) = ExpectedRow(KeptOf(lang))
          /\ SumRows(OneFileRows(filecounts))
                = ExpectedRow(UNION {KeptOf(lang) : lang \in Langs})
    /\ pc = "done" =>
          /\ LangRows = {[name |-> lang, num |-> SumRows(OneFileRows(by_lang[lang]))] :
                            lang \in DOMAIN by_lang}
          /\ NumberOfLangRows = Cardinality(DOMAIN by_lang)
          /\ report.mode = "summary" =>
                report.total = SumRows(OneFileRows(filecounts))

\* A summary of several languages was printed after two workers each
\* counted files, the second worker's before the first's were all stolen.
C3_Witness ==
    /\ pc = "done"
    /\ report.mode = "summary"
    /\ env.cpus = 2
    /\ Len(report.rows) >= 2
    /\ v[1] /= <<>>
    /\ v[2] /= <<>>
    /\ \E i, j \in 1..Len(pushed) :
          i < j /\ steals[i] = <<2>> /\ steals[j] = <<1>>
             /\ pushed[j].kind = "File" /\ Recognized(pushed[j].path)

\* --------------------------------------------------------------- totals
\* The numbers of the language rows of a summary, in order.
SummaryNums(rep) == [i \in 1..Len(rep.rows) |-> rep.rows[i].num]

\* The numbers of the file rows of a per-file report, each one file.
FileNums(rep) ==
    Flatten([i \in 1..Len(rep.groups) |->
               [k \in 1..Len(rep.groups[i].rows) |->
                  [files |-> 1,
                   lines |-> rep.groups[i].rows[k].lines,
                   blank |-> rep.groups[i].rows[k].blank,
                   comment |-> rep.groups[i].rows[k].comment,
                   code |-> rep.groups[i].rows[k].code]]])

\* C4: for the FileCounts main has grouped and every iteration order of the
\* buckets, the Totals row of the summary is the column-wise sum of its
\* language rows, and that sum is the sum of the file rows per-file mode
\* prints for the same FileCounts, the files column being the number of file
\* rows; the report then printed has these sums.
C4_TotalsRow ==
    /\ (pc = "report" /\ SubUsize(width, FirstColumnReserve).ok) =>
          \A order \in Perms(DOMAIN by_lang) :
             LET summary == SummaryReport(by_lang, sort, width, order)
                 perfile == FilesReport(by_lang, sort, width, order)
                 langsum == SumRows(SummaryNums(summary))
             IN /\ summary.total = langsum
                /\ langsum = SumRows(FileNums(perfile))
    /\ (pc = "done" /\ report.mode = "summary") =>
          report.total = SumRows(SummaryNums(report))
    /\ (pc = "done" /\ report.mode = "files") =>
          SumRows(FileNums(report))
             = SumRows([i \in 1..Len(report.groups) |-> report.groups[i].num])

\* A report was printed over several languages, one of them with two files.
C4_Witness ==
    /\ pc = "done"
    /\ Cardinality(DOMAIN by_lang) >= 2
    /\ \E lang \in DOMAIN by_lang : Len(by_lang[lang]) >= 2
    /\ filecounts /= <<>>

\* ---------------------------------------------------------- unrecognized
AllFileCounts ==
    UNION {Range(v[w]) : w \in 1..Len(v)}
    \cup Range(filecounts)
    \cup UNION {Range(by_lang[lang]) : lang \in DOMAIN by_lang}

\* The pushes of files of a recognized language.
RecognizedPushes ==
    {i \in 1..Len(pushed) : pushed[i].kind = "File" /\ Recognized(pushed[i].path)}

\* C5: no FileCount anywhere (a worker's list, filecounts, a bucket) has the
\* language Unrecognized or is for a path that classifies as Unrecognized,
\* there is no Unrecognized bucket, and the printed report has no
\* Unrecognized row and counts, as files, exactly the pushed files of
\* recognized languages.
C5_NoUnrecognized ==
    /\ \A fc \in AllFileCounts :
          /\ fc.lang /= "Unrecognized"
          /\ Recognized(fc.path)
    /\ "Unrecognized" \notin DOMAIN by_lang
    /\ pc = "done" =>
          /\ \A row \in LangRows : row.name /= "Unrecognized"
          /\ SumRows([i \in 1..NumberOfLangRows |->
                        IF report.mode = "summary" THEN report.rows[i].num
                        ELSE report.groups[i].num]).files
                = Cardinality(RecognizedPushes)
          /\ report.mode = "summary" =>
                report.total.files = Cardinality(RecognizedPushes)

\* A worker stole a file of no recognized language, and the report over the
\* other files was printed.
C5_Witness ==
    /\ pc = "done"
    /\ filecounts /= <<>>
    /\ \E i \in 1..Len(pushed) :
          /\ pushed[i].kind = "File"
          /\ ~Recognized(pushed[i].path)
          /\ steals[i] /= <<>>

\* ---------------------------------------------------------------- sorting
\* The report the same FileCounts give with --sort code, the buckets
\* iterated in some order.
ReportsSortedByCode ==
    {IF by_file THEN FilesReport(by_lang, "code", width, order)
     ELSE SummaryReport(by_lang, "code", width, order) :
        order \in Perms(DOMAIN by_lang)}

\* C6 (as claimed): a sort value outside the six columns prints a warning
\* and the report is one that --sort code prints, in either mode.
C6_UnknownSortAsCode ==
    (pc = "done" /\ sort \notin ValidSorts) =>
       /\ report.warning /= <<>>
       /\ [report EXCEPT !.warning = <<>>] \in ReportsSortedByCode

\* Row a may stand before row b under the sort key.
InOrder(key, a, b) ==
    IF key = "language" THEN StrLess(to_s(a.name), to_s(b.name))
    ELSE a.num[key] >= b.num[key]

\* C7: the language rows of the printed summary are in the order of the
\* sort key (ascending by display name for language, non-increasing in the
\* column for a numeric key) and are the language buckets, each once.
C7_SummarySorted ==
    (pc = "done" /\ report.mode = "summary" /\ sort \in ValidSorts) =>
       /\ \A i, j \in 1..Len(report.rows) :
             i < j => InOrder(sort, report.rows[i], report.rows[j])
       /\ {report.rows[i].name : i \in 1..Len(report.rows)} = DOMAIN by_lang
       /\ Len(report.rows) = Cardinality(DOMAIN by_lang)

\* A summary of three languages sorted by language whose code column is
\* not in descending order.
C7_Witness ==
    /\ pc = "done"
    /\ report.mode = "summary"
    /\ sort = "language"
    /\ Len(report.rows) = 3
    /\ report.rows[1].num.code < report.rows[2].num.code

\* -------------------------------------------------------------- filtering
\* main is past the walk of the last target.
WalkFinished == target_i > Len(targets)

\* C8: every pushed path passes the filter the command line states, and
\* once the walk is over a path has been pushed once per target that yields
\* it if it passes the filter and not at all if it does not; so a path that
\* matches both the include and the exclude pattern is never pushed.
C8_FilterIff ==
    /\ \A i \in 1..Len(pushed) :
          pushed[i].kind = "File" => KeepArgs(pushed[i].path)
    /\ WalkFinished =>
          \A path \in Paths :
             Cardinality(FilePushes(path))
                = IF KeepArgs(path) THEN WalkedTimes(path) ELSE 0

\* The walk is over with --include rs --exclude main: a.rs was pushed, and
\* main.rs, which matches both, and b.txt, which matches neither, were not.
C8_Witness ==
    /\ WalkFinished
    /\ args.include = <<PAT_RS>>
    /\ args.exclude = <<PAT_MAIN>>
    /\ FilePushes(A_RS) /= {}
    /\ FilePushes(MAIN_RS) = {}
    /\ FilePushes(B_TXT) = {}
    /\ is_match(combined_regex(args.include), MAIN_RS)
    /\ is_match(combined_regex(args.exclude), MAIN_RS)

\* ------------------------------------------------------------------ width
\* C9 (as claimed): with a width below the reserve of the numeric columns
\* the report is still rendered: main neither panics on the subtraction nor
\* runs away padding a wrapped column width.
C9_NarrowWidthRenders ==
    width < FirstColumnReserve =>
       /\ pc \notin {"panicked", "padding"}
       /\ \A i \in 1..Len(stderr) : stderr[i] /= "attempt to subtract with overflow"

\* ------------------------------------------------------------ bad regexes
\* Some --include or --exclude value is not a valid regex.
InvalidRegexGiven ==
    \E pattern \in Range(args.include) \cup Range(args.exclude) :
       ~RegexValid(pattern)

\* C10 (as claimed): when an --include or --exclude value is invalid, main
\* never gets past the compilation of the patterns: it ends with the
\* message and exit code 1, no worker spawned and nothing pushed.
C10_InvalidRegexExits ==
    InvalidRegexGiven =>
       /\ pc \in {"exclude", "include", "exited"}
       /\ pc = "exited" => (exit_code = Some(1) /\ stdout /= <<>>)
       /\ workers = <<>>
       /\ pushed = <<>>

\* ------------------------------------------------------- Counter failures
\* The pushes of files of a recognized language that the Counter can read.
ReadablePushes == {i \in RecognizedPushes : pushed[i].path \notin Unreadable}

\* C11 (as claimed): a file the Counter fails on yields no FileCount in any
\* list or bucket and is not among the files the report counts; the run
\* goes on.
C11_FailureSkipsFile ==
    /\ \A fc \in AllFileCounts : fc.path \notin Unreadable
    /\ pc = "done" =>
          SumRows([i \in 1..NumberOfLangRows |->
                     IF report.mode = "summary" THEN report.rows[i].num
                     ELSE report.groups[i].num]).files
             = Cardinality(ReadablePushes)

\* ------------------------------------------------------------- exit code
\* Every --include and --exclude value is a valid regex.
RegexesValid ==
    \A pattern \in Range(args.include) \cup Range(args.exclude) : RegexValid(pattern)

\* C12 (as claimed): with valid regexes the process never panics and never
\* hangs in the report, and when it has ended its exit code is 0.
C12_ExitsZero ==
    RegexesValid =>
       /\ pc \notin {"panicked", "padding"}
       /\ exit_code.some => exit_code.val = 0

\* ------------------------------------------------------ Quits after Files
QuitPushes == {i \in 1..Len(pushed) : pushed[i].kind = "Quit"}

\* C13: no Work::File is pushed after a Work::Quit, a Quit is pushed only
\* when the walk of the last target is over, and once a worker has stolen a
\* Quit the deque holds no File.
C13_QuitAfterFiles ==
    /\ \A i \in QuitPushes : \A j \in 1..Len(pushed) : i < j => j \in QuitPushes
    /\ QuitPushes /= {} => WalkFinished
    /\ (\E i \in QuitPushes : steals[i] /= <<>>) =>
          \A k \in 1..Len(workq) : workq[k].kind /= "File"

\* Files were pushed, one of two workers has stolen its Quit and returned
\* while the other still runs and its Quit is still in the deque.
C13_Witness ==
    /\ env.cpus = 2
    /\ ~NoFilePushed
    /\ \E i \in QuitPushes : steals[i] /= <<>>
    /\ \E w \in 1..Len(workers) : workers[w] = "running"
    /\ workq /= <<>>

\* ------------------------------------------------------ one Quit a worker
\* The Quits worker w has stolen.
QuitsStolenBy(w) == {i \in QuitPushes : \E k \in 1..Len(steals[i]) : steals[i][k] = w}

\* C14: never more Quits are pushed than workers were spawned, and once the
\* Quit loop is over exactly as many; a running worker has stolen no Quit and
\* a worker that has returned has stolen exactly one; once every worker has
\* returned the deque is empty.
C14_OneQuitPerWorker ==
    /\ Cardinality(QuitPushes) <= Len(workers)
    /\ pc \in {"join", "report", "done", "panicked", "padding"} =>
          Cardinality(QuitPushes) = Len(workers)
    /\ \A w \in 1..Len(workers) :
          Cardinality(QuitsStolenBy(w)) = IF workers[w] = "running" THEN 0 ELSE 1
    /\ (workers /= <<>> /\ \A w \in 1..Len(workers) : workers[w] /= "running") =>
          workq = <<>>

\* Two workers were spawned, two Quits pushed, each worker stole one and
\* main joined both.
C14_Witness ==
    /\ AllJoined
    /\ env.cpus = 2
    /\ Cardinality(QuitPushes) = 2
    /\ Cardinality(QuitsStolenBy(1)) = 1
    /\ Cardinality(QuitsStolenBy(2)) = 1
    /\ workq = <<>>

\* ------------------------------------------------ the order of file rows
\* The bucket of `lang` had its FileCounts arrived in the order `p`.
Rearranged(lang, p) == [i \in 1..Len(by_lang[lang]) |-> by_lang[lang][p[i]]]

\* C15 (as claimed): the file rows printed for a bucket are those the
\* Reporter's sort gives for every order in which the bucket's FileCounts
\* could have arrived.
C15_RowOrderBySortOnly ==
    (pc = "done" /\ report.mode = "files") =>
       \A g \in 1..Len(report.groups) :
          \A p \in Perms(1..Len(by_lang[report.groups[g].name])) :
             FileGroup(report.groups[g].name, Rearranged(report.groups[g].name, p),
                       sort, width).rows
                = report.groups[g].rows

\* ------------------------------------------------------------ the buckets
Occurrences(fcs, fc) == Cardinality({k \in 1..Len(fcs) : fcs[k] = fc})

\* C16: once main has grouped filecounts, each FileCount is in the bucket of
\* its own language as often as it is in filecounts and in no other bucket,
\* no bucket holds anything else, and each bucket's LangTotal has the
\* bucket's size as files and the column sums of the bucket's counts as
\* count; the summary prints these.
C16_Buckets ==
    pc \in {"report", "done"} =>
       /\ \A fc \in Range(filecounts) :
             /\ fc.lang \in DOMAIN by_lang
             /\ \A lang \in DOMAIN by_lang :
                   Occurrences(by_lang[lang], fc)
                      = IF lang = fc.lang THEN Occurrences(filecounts, fc) ELSE 0
       /\ \A lang \in DOMAIN by_lang :
             /\ by_lang[lang] /= <<>>
             /\ Range(by_lang[lang]) \subseteq Range(filecounts)
             /\ LangTotals(by_lang)[lang].files = Len(by_lang[lang])
             /\ NumericRow(LangTotals(by_lang)[lang].files, LangTotals(by_lang)[lang].count)
                   = SumRows(OneFileRows(by_lang[lang]))
       /\ (pc = "done" /\ report.mode = "summary") =>
             \A i \in 1..Len(report.rows) :
                report.rows[i].num = SumRows(OneFileRows(by_lang[report.rows[i].name]))

\* A summary was printed over three buckets, one of them with two files of
\* different counts.
C16_Witness ==
    /\ pc = "done"
    /\ report.mode = "summary"
    /\ Cardinality(DOMAIN by_lang) = 3
    /\ \E lang \in DOMAIN by_lang :
          /\ Len(by_lang[lang]) = 2
          /\ by_lang[lang][1].count /= by_lang[lang][2].count

\* -------------------------------------------------- Empty, Abort and Quit
\* C17: in every step, a worker that is running and whose step takes
\* nothing from the deque is still running with the same result list, and a
\* running worker stops only by taking a Quit from the deque, its list
\* unchanged.
C17_OnlyQuitStops ==
    [][\A w \in 1..Len(workers) :
          workers[w] = "running" =>
             /\ workq' = workq => (workers'[w] = "running" /\ v'[w] = v[w])
             /\ workers'[w] /= "running" =>
                   /\ workq /= <<>>
                   /\ Head(workq).kind = "Quit"
                   /\ workq' = Tail(workq)
                   /\ v'[w] = v[w]]_vars

\* Both workers run and steal from a deque nothing was pushed to yet.
C17_Witness ==
    /\ env.cpus = 2
    /\ Len(workers) = 2
    /\ workers[1] = "running"
    /\ workers[2] = "running"
    /\ pushed = <<>>
    /\ workq = <<>>
    /\ pc = "walk"

\* ------------------------------------------------------------ truncation
\* The last n characters of s, s itself when it has no more than n.
LastChars(s, n) == IF Len(s) <= n THEN s ELSE SubSeq(s, Len(s) - n + 1, Len(s))

\* C18 (as claimed): each file row of a per-file report shows the file's
\* path when it fits the path column and its last characters, as many as
\* the column takes, when it does not.
C18_LastNChars ==
    (pc = "done" /\ report.mode = "files") =>
       \A g \in 1..Len(report.groups) :
          LET sorted == SortFiles(by_lang[report.groups[g].name], sort) IN
          \A i \in 1..Len(sorted) :
             report.groups[g].rows[i].path
                = LastChars(sorted[i].path, width - PathColumnReserve)

\* --------------------------------------------------- no de-duplication
\* C19: once main has grouped the FileCounts, every kept path has been
\* pushed once per target that yields it and, if its language is
\* recognized, counted as often; each bucket holds as many FileCounts as the targets yield kept
\* files of its language, and its lines are the files' lines, each taken
\* once per target.
C19_OncePerTarget ==
    pc = "report" =>
       /\ \A path \in Paths :
             KeepArgs(path) =>
                /\ Cardinality(FilePushes(path)) = WalkedTimes(path)
                /\ Recognized(path) =>
                      Cardinality(CountsFor(filecounts, path)) = WalkedTimes(path)
       /\ \A lang \in DOMAIN by_lang :
             /\ Len(by_lang[lang]) = ColumnSum(KeptOf(lang), "files")
             /\ SumRows(OneFileRows(by_lang[lang])).lines = ColumnSum(KeptOf(lang), "lines")

\* The same directory was given twice: x.go was pushed twice and counted
\* twice, and the Go bucket holds it twice.
C19_Witness ==
    /\ pc = "report"
    /\ targets = <<"q", "q">>
    /\ Cardinality(FilePushes(X_GO)) = 2
    /\ Cardinality(CountsFor(filecounts, X_GO)) = 2
    /\ "Go" \in DOMAIN by_lang
    /\ Len(by_lang["Go"]) = 2

====
